---- MODULE Spec2Model ----
(***************************************************************************)
(* Sig4Sats: Cashu payment for a Nostr signature through Schnorr adaptor   *)
(* signatures.  The model follows main() of src/src/index.ts statement by  *)
(* statement.  secp256k1 is replaced by the curve with the same equation   *)
(* y^2 = x^3 + 7 over the field of 13 elements, whose group has the prime  *)
(* order 7; byte strings are ByteLen digits in base HexBase, so the        *)
(* largest encodable value (15) exceeds both the field prime and the group *)
(* order, as 2^256 - 1 does for secp256k1.                                 *)
(***************************************************************************)
EXTENDS Integers, Sequences, FiniteSets, TLC

\* ------------------------------------------------------------------------
\* Curve parameters (secp.CURVE of @noble/curves, scaled down)
\* ------------------------------------------------------------------------
CurveP == 13
CurveN == 7
CurveB == 7
HexBase == 4
ByteLen == 2

\* ------------------------------------------------------------------------
\* Bounds of the model
\* ------------------------------------------------------------------------
\* iterations of the nonce do/while loop the model follows for one proof
MaxAttempts == 3
\* the retry cap the specification asks for (64 in the text), scaled down
RetryCap == 2
\* largest value the tagged hash takes in the model (below HexBase^ByteLen)
HashMax == 8
\* number of times negateScalar is applied in a row to one input
NegateSteps == 15

\* JavaScript BigInt remainder: truncated, the sign follows the dividend
Rem(a, b) == IF a >= 0 THEN a % b ELSE 0 - ((0 - a) % b)

\* ------------------------------------------------------------------------
\* Hex / byte conversions
\* ------------------------------------------------------------------------
RECURSIVE ToStringHex(_)
\* BigInt.prototype.toString(16): shortest digit string, "0" for zero
ToStringHex(v) ==
    IF v < HexBase THEN <<v>>
    ELSE Append(ToStringHex(v \div HexBase), v % HexBase)

RECURSIVE PadStart(_, _)
\* String.prototype.padStart(len, "0"): a longer string is left as it is
PadStart(s, len) == IF Len(s) >= len THEN s ELSE PadStart(<<0>> \o s, len)

\* hexToBytes(v.toString(16).padStart(64, "0")): the 32-byte encoding
NumToBytes(v) == PadStart(ToStringHex(v), ByteLen)

RECURSIVE BytesToNum(_)
\* BigInt("0x" + bytesToHex(bytes)): big-endian value of a digit string
BytesToNum(s) ==
    IF Len(s) = 0 THEN 0
    ELSE BytesToNum(SubSeq(s, 1, Len(s) - 1)) * HexBase + s[Len(s)]

\* all byte strings of the fixed width
ByteStrings == { NumToBytes(v) : v \in 0 .. (HexBase * HexBase - 1) }

\* ------------------------------------------------------------------------
\* Field and curve arithmetic (secp.ProjectivePoint, seen through its
\* affine coordinates)
\* ------------------------------------------------------------------------
FieldInv == [a \in 1 .. (CurveP - 1) |->
               CHOOSE b \in 1 .. (CurveP - 1) : (a * b) % CurveP = 1]

\* ProjectivePoint.ZERO; its affine getters x and y both return 0
ZERO == <<0, 0>>

OnCurve(pt) == (pt[2] * pt[2]) % CurveP
                 = (pt[1] * pt[1] * pt[1] + CurveB) % CurveP

CurvePoints == { pt \in (0 .. (CurveP - 1)) \X (0 .. (CurveP - 1)) : OnCurve(pt) }

\* ProjectivePoint.negate
Negate(pt) == IF pt = ZERO THEN ZERO ELSE <<pt[1], (CurveP - pt[2]) % CurveP>>

\* ProjectivePoint.add (complete addition: doubling and inverse included)
PointAdd(a, b) ==
    IF a = ZERO THEN b
    ELSE IF b = ZERO THEN a
    ELSE IF a[1] = b[1] /\ (a[2] + b[2]) % CurveP = 0 THEN ZERO
    ELSE LET lam == IF a = b
                    THEN (3 * a[1] * a[1] * FieldInv[(2 * a[2]) % CurveP]) % CurveP
                    ELSE ((b[2] - a[2]) * FieldInv[(b[1] - a[1]) % CurveP]) % CurveP
             x3  == (lam * lam - a[1] - b[1]) % CurveP
         IN  <<x3, (lam * (a[1] - x3) - a[2]) % CurveP>>

RECURSIVE ScalarMul(_, _)
\* k-fold sum of a point, k >= 0
ScalarMul(pt, k) == IF k = 0 THEN ZERO ELSE PointAdd(ScalarMul(pt, k - 1), pt)

\* ProjectivePoint.BASE
BASE == <<7, 5>>

\* scalars ProjectivePoint.multiply accepts: 0 < k < n, anything else throws
ValidScalar(k) == k \in 1 .. (CurveN - 1)

BaseTable == [k \in 0 .. (CurveN - 1) |-> ScalarMul(BASE, k)]

\* discrete logarithm of a group element (used to multiply by table lookup)
DLog(pt) == CHOOSE k \in 0 .. (CurveN - 1) : BaseTable[k] = pt

\* ProjectivePoint.multiply for a scalar it accepts
Multiply(pt, k) == BaseTable[(DLog(pt) * k) % CurveN]

\* ProjectivePoint.fromPrivateKey for a key in [1, n)
FromPrivateKey(k) == BaseTable[k]

HasEvenY(pt) == pt[2] % 2 = 0

\* x coordinates schnorr.utils.lift_x accepts: 1 <= x < p and x on the curve
Liftable(x) == x \in 1 .. (CurveP - 1) /\ \E pt \in CurvePoints : pt[1] = x

\* schnorr.utils.lift_x: the point with this x and even y
LiftX(x) == CHOOSE pt \in CurvePoints : pt[1] = x /\ HasEvenY(pt)

\* variant of negateScalar without the remainder
negateScalarNoMod(scalar) == NumToBytes(CurveN - BytesToNum(scalar))

\* negateScalar: (n - s) % n on the 32-byte encoding
negateScalar(scalar) ==
    NumToBytes(Rem(CurveN - BytesToNum(scalar), CurveN))


\* ------------------------------------------------------------------------
\* Hashes
\* ------------------------------------------------------------------------
\* Values the model lets a 32-byte hash output take, read as a big-endian
\* integer: 0, every scalar in [1, n), n itself and n + 1, so that a hash
\* at or above the group order is among them.
HashValues == 0 .. HashMax

\* sha256 of a proof secret: a fixed injective map into the byte strings
Sha256(secret) == NumToBytes((5 * secret + 3) % (HexBase * HexBase))

\* hashToCurve(secret).toHex(true): the stable identifier of a proof
HashToCurve(secret) == <<2, secret>>

\* getEventHash(nostrEvent): the agreed event id
nostrEventId == NumToBytes(9)

\* ------------------------------------------------------------------------
\* State
\* ------------------------------------------------------------------------
VARIABLES
    pc,               \* position in main()
    k_p, P_p,         \* Payer key pair (secret scalar, x-only public key)
    k_s, P_s,         \* Signer key pair
    proofs,           \* the minted proofs locked to the Payer's key
    oracle,           \* taggedHash("BIP0340/challenge", .), sampled on demand
    secretSignature,  \* the Signer's private signature of the event id
    T,                \* adaptor point
    idx,              \* index of the proof the generation loop works on
    attempts,         \* iterations of the nonce loop done for this proof
    rawNonce,         \* what randomPrivateKey() returned in this iteration
    r_p, R_p, R_a,    \* locals of the nonce loop
    adaptors,         \* insertion-ordered map Y -> (s_a, R_p_x, R_a_x)
    nonces,           \* the scalar r each adaptor record was built from
    tokenAmountInvalid, \* the Signer reported the token amount as invalid
    cashuChallenges,  \* insertion-ordered map Y -> challenge
    areAdaptorsValid, \* the Signer's verdict on the batch
    verdictShown,     \* which message the Signer logged about the verdict
    cashuSignatures,  \* completed signatures, in completion order
    proofStates,      \* what the mint reports for each proof
    extractedSecret,  \* the scalar the Payer extracts
    isNostrEventValid, \* result of verifyEvent on the assembled event
    fault             \* the one deviation of the counterparty, if any

vars == <<pc, k_p, P_p, k_s, P_s, proofs, oracle, secretSignature, T, idx,
          attempts, rawNonce, r_p, R_p, R_a, adaptors, nonces,
          tokenAmountInvalid, cashuChallenges, areAdaptorsValid, verdictShown,
          cashuSignatures, proofStates, extractedSecret, isNostrEventValid,
          fault>>

\* value of a variable that has not been assigned yet
Unset == <<>>

\* ------------------------------------------------------------------------
\* Library functions
\* ------------------------------------------------------------------------
\* the tagged hash of an input that has been sampled, as an integer
TaggedHash(orc, input) == orc[input]

\* sample the oracle on the inputs it has not seen yet
SampleOracle(inputs) ==
    \E f \in [inputs \ DOMAIN oracle -> HashValues] : oracle' = f @@ oracle

\* getPublicKey: x coordinate of k*G as a hex string
getPublicKey(k) == NumToBytes(FromPrivateKey(k)[1])

\* challenge input of BIP340: nonce x || public key x || message
ChallengeInput(rx, px, m) == rx \o px \o m

\* schnorr.verify
SchnorrVerify(orc, sig, m, pub) ==
    LET px == BytesToNum(pub)
        r  == BytesToNum(SubSeq(sig, 1, ByteLen))
        s  == BytesToNum(SubSeq(sig, ByteLen + 1, Len(sig)))
    IN  /\ Liftable(px)
        /\ r \in 1 .. (CurveP - 1)
        /\ s \in 1 .. (CurveN - 1)
        /\ LET P == LiftX(px)
               e == Rem(TaggedHash(orc, ChallengeInput(NumToBytes(r), NumToBytes(P[1]), m)),
                        CurveN)
               R == PointAdd(BaseTable[s],
                             BaseTable[(DLog(P) * Rem(CurveN - e, CurveN)) % CurveN])
           IN  R # ZERO /\ HasEvenY(R) /\ R[1] = r

\* the signature schnorr.sign computes from the key, the nonce it derived
\* and the challenge hash
SchnorrSignature(d0, k0, h) ==
    LET P == FromPrivateKey(d0)
        d == IF HasEvenY(P) THEN d0 ELSE CurveN - d0
        R == FromPrivateKey(k0)
        k == IF HasEvenY(R) THEN k0 ELSE CurveN - k0
        e == Rem(h, CurveN)
    IN  NumToBytes(R[1]) \o NumToBytes(Rem(k + e * d, CurveN))

\* decomposePowersOfTwo: the powers of two that add up to n, ascending
RECURSIVE PowersFrom(_, _)
PowersFrom(n, pw) ==
    IF n = 0 THEN <<>>
    ELSE (IF n % 2 = 1 THEN <<pw>> ELSE <<>>) \o PowersFrom(n \div 2, 2 * pw)

decomposePowersOfTwo(n) == PowersFrom(n, 1)

paymentAmount == 130

\* wallet.mintProofs: one proof per power of two, each with its own secret
mintProofs(amount) ==
    LET amounts == decomposePowersOfTwo(amount)
    IN  [j \in 1 .. Len(amounts) |-> [secret |-> j, amount |-> amounts[j]]]

\* ------------------------------------------------------------------------
\* Insertion-ordered maps ({...obj, [key]: value} and Object.entries)
\* ------------------------------------------------------------------------
HasKey(m, key) == \E j \in 1 .. Len(m) : m[j].key = key

Lookup(m, key) == m[CHOOSE j \in 1 .. Len(m) : m[j].key = key].val

\* variant of the insertion that puts a new key in front of the others
PutFirst(m, key, val) ==
    IF HasKey(m, key)
    THEN [j \in 1 .. Len(m) |->
            IF m[j].key = key THEN [key |-> key, val |-> val] ELSE m[j]]
    ELSE <<[key |-> key, val |-> val]>> \o m

Put(m, key, val) ==
    IF HasKey(m, key)
    THEN [j \in 1 .. Len(m) |->
            IF m[j].key = key THEN [key |-> key, val |-> val] ELSE m[j]]
    ELSE Append(m, [key |-> key, val |-> val])

\* ------------------------------------------------------------------------
\* Setup and steps 1-2
\* ------------------------------------------------------------------------
\* generateSecretKey(): every scalar in [1, n) for the Payer
SecretKeys == 1 .. (CurveN - 1)

\* the Signer's key is drawn from one key of each y-parity
SignerSecretKeys == {1, CurveN - 1}

\* no deviation: both parties follow main()
NoFault == [kind |-> "none", orig |-> <<>>, input |-> <<>>]

\* state at the start of step 2 for a given batch of proofs and a given
\* set of Signer keys
InitWith(batch, signerKeys) ==
    /\ pc = "sign"
    /\ k_p \in SecretKeys
    /\ P_p = getPublicKey(k_p)
    /\ k_s \in signerKeys
    /\ P_s = getPublicKey(k_s)
    /\ proofs = batch
    /\ fault = NoFault
    /\ oracle = <<>>
    /\ secretSignature = Unset
    /\ T = Unset
    /\ idx = 0
    /\ attempts = 0
    /\ rawNonce = 0
    /\ r_p = Unset
    /\ R_p = Unset
    /\ R_a = Unset
    /\ adaptors = <<>>
    /\ nonces = <<>>
    /\ tokenAmountInvalid = FALSE
    /\ cashuChallenges = <<>>
    /\ areAdaptorsValid = TRUE
    /\ verdictShown = "none"
    /\ cashuSignatures = <<>>
    /\ proofStates = <<>>
    /\ extractedSecret = 0 - 1
    /\ isNostrEventValid = FALSE

Init == InitWith(mintProofs(paymentAmount), SignerSecretKeys)

\* Step 2: the Signer signs the event id privately (schnorr.sign).  The
\* nonce is derived from fresh auxiliary randomness; sign throws when the
\* nonce is zero or when its own signature does not verify.
SignerSigns ==
    /\ pc = "sign"
    /\ \E k0 \in 0 .. (CurveN - 1) :
         IF k0 = 0
         THEN /\ pc' = "rejected"
              /\ UNCHANGED <<oracle, secretSignature>>
         ELSE LET input == ChallengeInput(NumToBytes(FromPrivateKey(k0)[1]),
                                          P_s, nostrEventId)
              IN  /\ SampleOracle({input})
                  /\ LET sig == SchnorrSignature(k_s, k0, TaggedHash(oracle', input))
                     IN  IF SchnorrVerify(oracle', sig, nostrEventId, P_s)
                         THEN /\ secretSignature' = sig
                              /\ pc' = "adaptorPoint"
                         ELSE /\ secretSignature' = secretSignature
                              /\ pc' = "rejected"
    /\ UNCHANGED <<fault, k_p, P_p, k_s, P_s, proofs, T, idx, attempts, rawNonce,
                   r_p, R_p, R_a, adaptors, nonces, tokenAmountInvalid,
                   cashuChallenges, areAdaptorsValid, verdictShown,
                   cashuSignatures, proofStates, extractedSecret,
                   isNostrEventValid>>

\* Public nonce of the event signature, shared with the Payer
R_s_x == SubSeq(secretSignature, 1, ByteLen)

\* Step 3, first part: the Payer builds T = R_s + c_nostr * P_s.  multiply
\* throws unless 0 < c_nostr < n, and T.toHex() throws on the zero point.
BuildAdaptorPoint ==
    /\ pc = "adaptorPoint"
    /\ LET c_nostr == TaggedHash(oracle, ChallengeInput(R_s_x, P_s, nostrEventId))
           R_s     == LiftX(BytesToNum(R_s_x))
       IN  IF ~ValidScalar(c_nostr)
           THEN /\ pc' = "rejected"
                /\ UNCHANGED <<T, idx>>
           ELSE LET sum == PointAdd(R_s, Multiply(LiftX(BytesToNum(P_s)), c_nostr))
                IN  /\ T' = sum
                    /\ IF sum = ZERO
                       THEN pc' = "rejected" /\ idx' = idx
                       ELSE pc' = "nonce" /\ idx' = 1
    /\ UNCHANGED <<fault, k_p, P_p, k_s, P_s, proofs, oracle, secretSignature,
                   attempts, rawNonce, r_p, R_p, R_a, adaptors, nonces,
                   tokenAmountInvalid, cashuChallenges, areAdaptorsValid,
                   verdictShown, cashuSignatures, proofStates,
                   extractedSecret, isNostrEventValid>>


\* ------------------------------------------------------------------------
\* Step 3: the Payer's adaptor signatures
\* ------------------------------------------------------------------------
\* values schnorr.utils.randomPrivateKey() can return
RandomPrivateKeys == { NumToBytes(k) : k \in 1 .. (CurveN - 1) }

\* variant of the parity fix that reflects the point but keeps the scalar
EvenNonceNoFix(r) == r

\* the nonce scalar after the parity fix of the loop body
EvenNonce(r) ==
    IF HasEvenY(FromPrivateKey(BytesToNum(r))) THEN r ELSE negateScalar(r)

\* the nonce point after the parity fix of the loop body
EvenNoncePoint(r) ==
    LET R == FromPrivateKey(BytesToNum(r))
    IN  IF HasEvenY(R) THEN R ELSE Negate(R)

\* loop condition of the do/while: try again while R_a has an odd y
NonceLoopContinues(Ra) == Ra[2] % 2 = 1

\* variant of the loop iteration that keeps the first record's nonce for
\* the later proofs instead of the scalar just drawn
NonceAttemptStale ==
    /\ pc = "nonce"
    /\ attempts < MaxAttempts
    /\ \E r \in RandomPrivateKeys :
         LET used == IF Len(nonces) > 0 THEN NumToBytes(nonces[1]) ELSE r
         IN  /\ rawNonce' = BytesToNum(r)
             /\ r_p' = EvenNonce(used)
             /\ R_p' = EvenNoncePoint(used)
             /\ R_a' = PointAdd(EvenNoncePoint(used), T)
             /\ pc' = IF NonceLoopContinues(PointAdd(EvenNoncePoint(used), T))
                      THEN "nonce" ELSE "adaptor"
    /\ attempts' = attempts + 1
    /\ UNCHANGED <<fault, k_p, P_p, k_s, P_s, proofs, oracle, secretSignature, T,
                   idx, adaptors, nonces, tokenAmountInvalid, cashuChallenges,
                   areAdaptorsValid, verdictShown, cashuSignatures,
                   proofStates, extractedSecret, isNostrEventValid>>

\* One iteration of the do/while nonce loop of proof idx
NonceAttempt ==
    /\ pc = "nonce"
    /\ attempts < MaxAttempts
    /\ \E r \in RandomPrivateKeys :
         /\ rawNonce' = BytesToNum(r)
         /\ r_p' = EvenNonce(r)
         /\ R_p' = EvenNoncePoint(r)
         /\ R_a' = PointAdd(EvenNoncePoint(r), T)
         /\ pc' = IF NonceLoopContinues(PointAdd(EvenNoncePoint(r), T))
                  THEN "nonce" ELSE "adaptor"
    /\ attempts' = attempts + 1
    /\ UNCHANGED <<fault, k_p, P_p, k_s, P_s, proofs, oracle, secretSignature, T,
                   idx, adaptors, nonces, tokenAmountInvalid, cashuChallenges,
                   areAdaptorsValid, verdictShown, cashuSignatures,
                   proofStates, extractedSecret, isNostrEventValid>>

\* the challenge the Payer uses: negated when its key point has an odd y
PayerChallenge(h, k) ==
    LET c == Rem(h, CurveN)
    IN  IF HasEvenY(FromPrivateKey(k)) THEN c ELSE CurveN - c

\* variant of the adaptor scalar that also adds the number of records
\* already stored
AdaptorScalarChained(r, c, k) ==
    Rem(r + Rem(c * k, CurveN) + Len(adaptors), CurveN)

\* the adaptor scalar s_a = r_p + c * k_p
AdaptorScalar(r, c, k) == Rem(r + Rem(c * k, CurveN), CurveN)

\* the adaptor record of a proof from the loop's nonce and the challenge hash
AdaptorRecord(rp, Rp, Ra, h, k) ==
    [s_a   |-> AdaptorScalar(Rem(BytesToNum(rp), CurveN), PayerChallenge(h, k),
                             Rem(k, CurveN)),
     R_p_x |-> NumToBytes(Rp[1]),
     R_a_x |-> NumToBytes(Ra[1])]

\* variant of the loop body that negates the Payer's key in place when its
\* point has an odd y
MakeAdaptorNegatingKey(digest) ==
    /\ pc = "adaptor"
    /\ LET proof == proofs[idx]
           input == ChallengeInput(NumToBytes(R_a[1]), P_p, digest)
       IN  /\ SampleOracle({input})
           /\ adaptors' = Put(adaptors, HashToCurve(proof.secret),
                              AdaptorRecord(r_p, R_p, R_a,
                                            TaggedHash(oracle', input), k_p))
    /\ k_p' = IF HasEvenY(FromPrivateKey(k_p)) THEN k_p ELSE CurveN - k_p
    /\ nonces' = Append(nonces, Rem(BytesToNum(r_p), CurveN))
    /\ attempts' = 0
    /\ rawNonce' = 0
    /\ r_p' = Unset
    /\ R_p' = Unset
    /\ R_a' = Unset
    /\ IF idx < Len(proofs)
       THEN idx' = idx + 1 /\ pc' = "nonce"
       ELSE idx' = idx /\ pc' = "token"
    /\ UNCHANGED <<P_p, k_s, P_s, proofs, secretSignature, T,
                   tokenAmountInvalid, cashuChallenges, areAdaptorsValid,
                   verdictShown, cashuSignatures, proofStates,
                   extractedSecret, isNostrEventValid>>

\* Rest of the loop body of proof idx for a message digest: challenge,
\* adaptor scalar, record
MakeAdaptorWith(digest) ==
    /\ pc = "adaptor"
    /\ LET proof == proofs[idx]
           input == ChallengeInput(NumToBytes(R_a[1]), P_p, digest)
       IN  /\ SampleOracle({input})
           /\ adaptors' = Put(adaptors, HashToCurve(proof.secret),
                              AdaptorRecord(r_p, R_p, R_a,
                                            TaggedHash(oracle', input), k_p))
    /\ nonces' = Append(nonces, Rem(BytesToNum(r_p), CurveN))
    /\ attempts' = 0
    /\ rawNonce' = 0
    /\ r_p' = Unset
    /\ R_p' = Unset
    /\ R_a' = Unset
    /\ IF idx < Len(proofs)
       THEN idx' = idx + 1 /\ pc' = "nonce"
       ELSE idx' = idx /\ pc' = "token"
    /\ UNCHANGED <<k_p, P_p, k_s, P_s, proofs, secretSignature, T,
                   tokenAmountInvalid, cashuChallenges, areAdaptorsValid,
                   verdictShown, cashuSignatures, proofStates,
                   extractedSecret, isNostrEventValid>>

\* The Payer signs the digest of the proof's own secret
MakeAdaptor ==
    /\ MakeAdaptorWith(Sha256(proofs[idx].secret))
    /\ UNCHANGED fault

\* ------------------------------------------------------------------------
\* Step 4: the Signer checks the token and the adaptors, then completes
\* ------------------------------------------------------------------------
RECURSIVE SumAmounts(_)
\* decodedToken.proofs.reduce((sum, { amount }) => sum + amount, 0)
SumAmounts(ps) ==
    IF Len(ps) = 0 THEN 0 ELSE ps[1].amount + SumAmounts(Tail(ps))

\* uniqueSecrets.size === decodedToken.proofs.length
areSecretsUnique(ps) ==
    Cardinality({ ps[j].secret : j \in 1 .. Len(ps) }) = Len(ps)

\* condition under which the Signer reports the token amount as invalid
TokenAmountRejected(ps) ==
    ~areSecretsUnique(ps) /\ SumAmounts(ps) # paymentAmount

\* challenge hash input the Signer uses for a proof
SignerChallengeInput(proof) ==
    ChallengeInput(Lookup(adaptors, HashToCurve(proof.secret)).R_a_x, P_p,
                   Sha256(proof.secret))

RECURSIVE ChallengeMap(_, _, _)
\* the loop that fills cashuChallenges, proof by proof
ChallengeMap(orc, ps, acc) ==
    IF Len(ps) = 0 THEN acc
    ELSE ChallengeMap(orc, Tail(ps),
                      Put(acc, HashToCurve(ps[1].secret),
                          TaggedHash(orc, SignerChallengeInput(ps[1]))))

\* The Signer decodes the token, checks the amount of its proofs and
\* computes the challenge of every proof of the batch.  Reading adaptors[Y]
\* of a proof that has no record throws.
SignerChecksTokenWith(tokenProofs) ==
    /\ pc = "token"
    /\ tokenAmountInvalid' = TokenAmountRejected(tokenProofs)
    /\ IF \E j \in 1 .. Len(proofs) : ~HasKey(adaptors, HashToCurve(proofs[j].secret))
       THEN /\ pc' = "rejected"
            /\ UNCHANGED <<oracle, cashuChallenges, idx>>
       ELSE /\ SampleOracle({ SignerChallengeInput(proofs[j]) : j \in 1 .. Len(proofs) })
            /\ cashuChallenges' = ChallengeMap(oracle', proofs, <<>>)
            /\ idx' = 1
            /\ pc' = "verify"
    /\ UNCHANGED <<k_p, P_p, k_s, P_s, proofs, secretSignature, T, attempts,
                   rawNonce, r_p, R_p, R_a, adaptors, nonces,
                   areAdaptorsValid, verdictShown, cashuSignatures,
                   proofStates, extractedSecret, isNostrEventValid>>

\* The token the Payer sends holds the proofs that were minted
SignerChecksToken ==
    /\ SignerChecksTokenWith(proofs)
    /\ UNCHANGED fault

\* the calls of one verification that throw: lift_x of a bad x coordinate,
\* multiply by a scalar outside [1, n)
VerificationThrows(rec, c) ==
    \/ ~Liftable(BytesToNum(rec.R_p_x))
    \/ ~ValidScalar(rec.s_a)
    \/ ~ValidScalar(c)
    \/ ~ValidScalar(CurveN - c)

\* variant of the even-branch comparison that compares x coordinates only
MatchesEvenXOnly(rec, c, pub) ==
    BaseTable[rec.s_a][1]
      = PointAdd(LiftX(BytesToNum(rec.R_p_x)), Multiply(LiftX(BytesToNum(pub)), c))[1]

\* left.equals(rightEven)
MatchesEven(rec, c, pub) ==
    BaseTable[rec.s_a]
      = PointAdd(LiftX(BytesToNum(rec.R_p_x)), Multiply(LiftX(BytesToNum(pub)), c))

\* left.equals(rightOdd)
MatchesOdd(rec, c, pub) ==
    BaseTable[rec.s_a]
      = PointAdd(LiftX(BytesToNum(rec.R_p_x)),
                 Multiply(LiftX(BytesToNum(pub)), CurveN - c))

\* variant of the acceptance test that only requires s_a*G to have the x
\* coordinate of one of the two right-hand sides
AdaptorAcceptedUpToSign(rec, c, pub) ==
    \/ MatchesEven(rec, c, pub)
    \/ MatchesOdd(rec, c, pub)
    \/ Negate(BaseTable[rec.s_a])
         = PointAdd(LiftX(BytesToNum(rec.R_p_x)), Multiply(LiftX(BytesToNum(pub)), c))

\* the adaptor signature is valid if one of the verifications is valid
AdaptorAccepted(rec, c, pub) ==
    MatchesEven(rec, c, pub) \/ MatchesOdd(rec, c, pub)

\* One iteration of the verification loop, on entry idx of adaptors; after
\* the last entry the verdict is logged.
VerifyAdaptor ==
    /\ pc = "verify"
    /\ LET entry == adaptors[idx]
           c     == Lookup(cashuChallenges, entry.key)
           last  == idx = Len(adaptors)
       IN  IF VerificationThrows(entry.val, c)
           THEN /\ pc' = "rejected"
                /\ UNCHANGED <<areAdaptorsValid, verdictShown, idx>>
           ELSE /\ areAdaptorsValid' =
                     IF AdaptorAccepted(entry.val, c, P_p)
                     THEN areAdaptorsValid ELSE FALSE
                /\ idx' = IF last THEN idx ELSE idx + 1
                /\ pc' = IF last THEN "complete" ELSE "verify"
                /\ verdictShown' =
                     IF ~last THEN verdictShown
                     ELSE IF areAdaptorsValid' THEN "valid" ELSE "invalid"
    /\ UNCHANGED <<fault, k_p, P_p, k_s, P_s, proofs, oracle, secretSignature, T,
                   attempts, rawNonce, r_p, R_p, R_a, adaptors, nonces,
                   tokenAmountInvalid, cashuChallenges, cashuSignatures,
                   proofStates, extractedSecret, isNostrEventValid>>

\* the hidden value t: second half of the Signer's event signature
HiddenScalar(sig) == BytesToNum(SubSeq(sig, ByteLen + 1, Len(sig)))

\* variant of the completion that adds the scalar of the Signer's own
\* signature whatever hidden value it is given
CompleteSignatureCommitted(rec, t) ==
    rec.R_a_x \o NumToBytes(Rem(rec.s_a + HiddenScalar(secretSignature), CurveN))

\* the completed Cashu signature of one record: R_a_x || (s_a + t) mod n
CompleteSignature(rec, t) ==
    rec.R_a_x \o NumToBytes(Rem(rec.s_a + t, CurveN))

\* The completion loop over Object.entries(adaptors) with hidden value t
CompleteWith(t) ==
    /\ pc = "complete"
    /\ cashuSignatures' =
         [j \in 1 .. Len(adaptors) |-> CompleteSignature(adaptors[j].val, t)]
    /\ pc' = "claim"
    /\ UNCHANGED <<k_p, P_p, k_s, P_s, proofs, oracle, secretSignature, T,
                   idx, attempts, rawNonce, r_p, R_p, R_a, adaptors, nonces,
                   tokenAmountInvalid, cashuChallenges, areAdaptorsValid,
                   verdictShown, proofStates, extractedSecret,
                   isNostrEventValid>>

\* The Signer completes with the second half of its event signature
CompleteSignatures ==
    /\ CompleteWith(HiddenScalar(secretSignature))
    /\ UNCHANGED fault

\* ------------------------------------------------------------------------
\* Step 5: the Signer claims the payment at the mint
\* ------------------------------------------------------------------------
\* signedProofs: proof j carries cashuSignatures[j] as its witness (none
\* when there are fewer signatures than proofs)
signedProofs ==
    [j \in 1 .. Len(proofs) |->
       [secret  |-> proofs[j].secret,
        amount  |-> proofs[j].amount,
        witness |-> IF j <= Len(cashuSignatures)
                    THEN <<cashuSignatures[j]>> ELSE <<>>]]

\* challenge hash input of the mint's check of one signed proof
MintChallengeInput(sp) ==
    ChallengeInput(SubSeq(sp.witness[1], 1, ByteLen), P_p, Sha256(sp.secret))

\* the mint's P2PK check of one signed proof (NUT-11): a BIP340 signature
\* of sha256(secret) under the key the proof is locked to
MintAccepts(orc, sp) ==
    /\ Len(sp.witness) = 1
    /\ SchnorrVerify(orc, sp.witness[1], Sha256(sp.secret), P_p)

\* wallet.receive(unlockedToken): the mint swaps the proofs when every
\* signature is valid and refuses the whole token otherwise (receive throws)
ClaimPayment ==
    /\ pc = "claim"
    /\ SampleOracle({ MintChallengeInput(signedProofs[j]) :
                        j \in { q \in 1 .. Len(proofs) : Len(signedProofs[q].witness) = 1 } })
    /\ pc' = IF \A j \in 1 .. Len(proofs) : MintAccepts(oracle', signedProofs[j])
             THEN "settled" ELSE "rejected"
    /\ UNCHANGED <<fault, k_p, P_p, k_s, P_s, proofs, secretSignature, T, idx,
                   attempts, rawNonce, r_p, R_p, R_a, adaptors, nonces,
                   tokenAmountInvalid, cashuChallenges, areAdaptorsValid,
                   verdictShown, cashuSignatures, proofStates,
                   extractedSecret, isNostrEventValid>>

\* ------------------------------------------------------------------------
\* Step 6: the Payer extracts the Signer's signature
\* ------------------------------------------------------------------------
\* wallet.checkProofsStates(proofs): per proof its Y, its state and, when
\* spent, the witness it was spent with; `spent` is what the mint reports
\* as spent at the time of the call
ProofStatesReport(spent) ==
    [j \in 1 .. Len(proofs) |->
       [Y       |-> HashToCurve(proofs[j].secret),
        state   |-> IF j \in spent THEN "SPENT" ELSE "UNSPENT",
        witness |-> IF j \in spent THEN signedProofs[j].witness ELSE <<>>]]

\* proofStates.filter((p) => p.state === CheckStateEnum.SPENT)
spentProofs(states) == SelectSeq(states, LAMBDA st : st.state = "SPENT")

\* variant of the extraction without the "+ n" before the remainder
ExtractSecretNoWrap(proofSignature, s_a) ==
    Rem(BytesToNum(SubSeq(proofSignature, ByteLen + 1, Len(proofSignature)))
          - s_a, CurveN)

\* (s_c - s_a + n) % n with s_c read from the second half of the signature
ExtractSecret(proofSignature, s_a) ==
    Rem(BytesToNum(SubSeq(proofSignature, ByteLen + 1, Len(proofSignature)))
          - s_a + CurveN, CurveN)

\* variant that assembles the signature with its halves exchanged
NostrSignatureSwapped(secret) == NumToBytes(secret) \o R_s_x

\* the Nostr signature the Payer assembles: R_s_x || extracted secret
NostrSignature(secret) == R_s_x \o NumToBytes(secret)

\* variant of the extraction step that subtracts the s_a of the first record
\* of the batch, whichever proof was spent
ExtractSignatureFirstRecord ==
    /\ pc = "settled"
    /\ \E spent \in SUBSET (1 .. Len(proofs)) :
         /\ proofStates' = ProofStatesReport(spent)
         /\ IF Len(spentProofs(proofStates')) = 0
            THEN /\ pc' = "rejected"
                 /\ UNCHANGED <<extractedSecret, isNostrEventValid>>
            ELSE LET first == spentProofs(proofStates')[1]
                 IN  IF Len(first.witness) # 1 \/ ~HasKey(adaptors, first.Y)
                     THEN /\ pc' = "rejected"
                          /\ UNCHANGED <<extractedSecret, isNostrEventValid>>
                     ELSE /\ extractedSecret' =
                               ExtractSecret(first.witness[1], adaptors[1].val.s_a)
                          /\ isNostrEventValid' =
                               SchnorrVerify(oracle, NostrSignature(extractedSecret'),
                                             nostrEventId, P_s)
                          /\ pc' = "done"
    /\ UNCHANGED <<fault, k_p, P_p, k_s, P_s, proofs, oracle, secretSignature, T,
                   idx, attempts, rawNonce, r_p, R_p, R_a, adaptors, nonces,
                   tokenAmountInvalid, cashuChallenges, areAdaptorsValid,
                   verdictShown, cashuSignatures>>

\* The Payer reads the proof states, extracts the secret from the first
\* spent proof and verifies the signed event.  With no spent proof,
\* spentProofs[0].Y throws.
ExtractSignature ==
    /\ pc = "settled"
    /\ \E spent \in SUBSET (1 .. Len(proofs)) :
         /\ proofStates' = ProofStatesReport(spent)
         /\ IF Len(spentProofs(proofStates')) = 0
            THEN /\ pc' = "rejected"
                 /\ UNCHANGED <<extractedSecret, isNostrEventValid>>
            ELSE LET first == spentProofs(proofStates')[1]
                 IN  IF Len(first.witness) # 1 \/ ~HasKey(adaptors, first.Y)
                     THEN /\ pc' = "rejected"
                          /\ UNCHANGED <<extractedSecret, isNostrEventValid>>
                     ELSE /\ extractedSecret' =
                               ExtractSecret(first.witness[1],
                                             Lookup(adaptors, first.Y).s_a)
                          /\ isNostrEventValid' =
                               SchnorrVerify(oracle, NostrSignature(extractedSecret'),
                                             nostrEventId, P_s)
                          /\ pc' = "done"
    /\ UNCHANGED <<fault, k_p, P_p, k_s, P_s, proofs, oracle, secretSignature, T,
                   idx, attempts, rawNonce, r_p, R_p, R_a, adaptors, nonces,
                   tokenAmountInvalid, cashuChallenges, areAdaptorsValid,
                   verdictShown, cashuSignatures>>

Next ==
    \/ SignerSigns
    \/ BuildAdaptorPoint
    \/ NonceAttempt
    \/ MakeAdaptor
    \/ SignerChecksToken
    \/ VerifyAdaptor
    \/ CompleteSignatures
    \/ ClaimPayment
    \/ ExtractSignature

Spec == Init /\ [][Next]_vars

\* ------------------------------------------------------------------------
\* Runs in which the counterparty deviates once.  The batch is a single
\* proof carrying the whole amount, as in the single-proof script.
\* ------------------------------------------------------------------------
InitAdv ==
    InitWith(<<[secret |-> 1, amount |-> paymentAmount]>>, {CurveN - 1})

\* secrets other than those of the batch
OtherSecrets == {2}

\* one field of a record replaced by another value
Replace(rec, field, value) ==
    CASE field = "s_a"   -> [rec EXCEPT !.s_a = value]
      [] field = "R_p_x" -> [rec EXCEPT !.R_p_x = value]
      [] field = "R_a_x" -> [rec EXCEPT !.R_a_x = value]

\* Values a replaced field can take: any scalar up to n for s_a; for R_p_x
\* every x coordinate of the curve and one that is not; for R_a_x, which is
\* only hashed, two values
FieldValues(field) ==
    CASE field = "s_a"   -> 0 .. CurveN
      [] field = "R_p_x" -> { NumToBytes(x) : x \in {0} \cup { q \in 1 .. (CurveP - 1) : Liftable(q) } }
      [] field = "R_a_x" -> { NumToBytes(BASE[1]), NumToBytes(0) }

\* the challenge input the Payer hashed for entry j of adaptors
GeneratorInput(j) ==
    ChallengeInput(adaptors[j].val.R_a_x, P_p, Sha256(proofs[j].secret))

\* A record reaches the Signer with exactly one field replaced
TamperRecord ==
    /\ pc = "token"
    /\ fault.kind = "none"
    /\ \E j \in 1 .. Len(adaptors), field \in {"s_a", "R_p_x", "R_a_x"} :
         \E value \in FieldValues(field) :
            /\ value # adaptors[j].val[field]
            /\ adaptors' = [adaptors EXCEPT ![j].val = Replace(@, field, value)]
            /\ fault' = [kind |-> field, orig |-> adaptors[j].val,
                         input |-> GeneratorInput(j)]
    /\ UNCHANGED <<pc, k_p, P_p, k_s, P_s, proofs, oracle, secretSignature, T,
                   idx, attempts, rawNonce, r_p, R_p, R_a, nonces,
                   tokenAmountInvalid, cashuChallenges, areAdaptorsValid,
                   verdictShown, cashuSignatures, proofStates,
                   extractedSecret, isNostrEventValid>>

\* The Payer builds the record of a proof for the digest of another secret
MakeAdaptorOtherDigest ==
    /\ fault.kind = "none"
    /\ \E other \in OtherSecrets \ { proofs[j].secret : j \in 1 .. Len(proofs) } :
         /\ MakeAdaptorWith(Sha256(other))
         /\ fault' = [kind |-> "digest", orig |-> <<>>,
                      input |-> ChallengeInput(NumToBytes(R_a[1]), P_p, Sha256(other))]

\* The Signer completes with a scalar that is not the one T commits to
CompleteWithOtherScalar ==
    /\ fault.kind = "none"
    /\ \E t \in (0 .. (CurveN - 1)) \ {HiddenScalar(secretSignature)} :
         CompleteWith(t)
    /\ fault' = [kind |-> "t", orig |-> <<>>, input |-> <<>>]

\* tokens whose proofs are not the agreed payment: a wrong total, a
\* repeated secret with the right total, and both
OtherTokens ==
    { <<[secret |-> 1, amount |-> 2]>>,
      <<[secret |-> 1, amount |-> 2], [secret |-> 1, amount |-> 128]>>,
      <<[secret |-> 1, amount |-> 2], [secret |-> 1, amount |-> 2]>> }

\* The Payer sends a token that does not hold the agreed payment
SendOtherToken ==
    /\ fault.kind = "none"
    /\ \E tokenProofs \in OtherTokens :
         /\ SignerChecksTokenWith(tokenProofs)
         /\ fault' = [kind |-> "token", orig |-> tokenProofs, input |-> <<>>]

NextAdv ==
    \/ Next
    \/ TamperRecord
    \/ MakeAdaptorOtherDigest
    \/ CompleteWithOtherScalar
    \/ SendOtherToken

SpecAdv == InitAdv /\ [][NextAdv]_vars


\* ------------------------------------------------------------------------
\* negateScalar on its own: the input is any scalar in [0, n) in its byte
\* encoding (kept in rawNonce); r_p holds the result of applying negateScalar
\* to it attempts times.
\* ------------------------------------------------------------------------
InitNeg ==
    /\ pc = "negate"
    /\ r_p \in { NumToBytes(s) : s \in 0 .. (CurveN - 1) }
    /\ rawNonce = BytesToNum(r_p)
    /\ attempts = 0
    /\ k_p = 1
    /\ P_p = getPublicKey(k_p)
    /\ k_s = 1
    /\ P_s = getPublicKey(k_s)
    /\ proofs = <<>>
    /\ fault = NoFault
    /\ oracle = <<>>
    /\ secretSignature = Unset
    /\ T = Unset
    /\ idx = 0
    /\ R_p = Unset
    /\ R_a = Unset
    /\ adaptors = <<>>
    /\ nonces = <<>>
    /\ tokenAmountInvalid = FALSE
    /\ cashuChallenges = <<>>
    /\ areAdaptorsValid = TRUE
    /\ verdictShown = "none"
    /\ cashuSignatures = <<>>
    /\ proofStates = <<>>
    /\ extractedSecret = 0 - 1
    /\ isNostrEventValid = FALSE

\* r_p = negateScalar(r_p)
NegateScalarStep ==
    /\ pc = "negate"
    /\ attempts < NegateSteps
    /\ r_p' = negateScalar(r_p)
    /\ attempts' = attempts + 1
    /\ UNCHANGED <<pc, fault, k_p, P_p, k_s, P_s, proofs, oracle, secretSignature,
                   T, idx, rawNonce, R_p, R_a, adaptors, nonces,
                   tokenAmountInvalid, cashuChallenges, areAdaptorsValid,
                   verdictShown, cashuSignatures, proofStates,
                   extractedSecret, isNostrEventValid>>

NextNeg == NegateScalarStep

SpecNeg == InitNeg /\ [][NextNeg]_vars

\* ========================================================================
\* Claims
\* ========================================================================
\* the hidden scalar t the adaptor point commits to
CommittedScalar == HiddenScalar(secretSignature)

\* the Signer's verification accepted the batch
BatchAccepted == verdictShown = "valid"

\* C1: every adaptor record the Payer generates is accepted by the Signer's
\* verification: when the Signer reaches the verification loop, no call of
\* the verification of any record throws and one of the two equations
\* s_a*G = lift(R_p) + c*P, s_a*G = lift(R_p) + (n-c)*P holds.
C1_GeneratedAdaptorAccepted ==
    pc = "verify" =>
      \A j \in 1 .. Len(adaptors) :
         LET c == Lookup(cashuChallenges, adaptors[j].key)
         IN  /\ ~VerificationThrows(adaptors[j].val, c)
             /\ AdaptorAccepted(adaptors[j].val, c, P_p)

\* C2: every honestly generated record, completed with the scalar t that T
\* commits to, is a standard Schnorr signature of the proof's digest under
\* the Payer's x-only key.
C2_CompletedSignatureVerifies ==
    pc = "claim" =>
      \A j \in 1 .. Len(cashuSignatures) :
         SchnorrVerify(oracle, cashuSignatures[j], Sha256(proofs[j].secret), P_p)

\* C3: extraction inverts completion: for every completed signature,
\* (s_c - s_a + n) mod n is exactly the hidden scalar t, and the secret the
\* Payer extracts at the end is t.
C3_ExtractionInvertsCompletion ==
    /\ pc \in {"claim", "settled", "done", "rejected"} =>
         \A j \in 1 .. Len(cashuSignatures) :
            ExtractSecret(cashuSignatures[j], adaptors[j].val.s_a) = CommittedScalar
    /\ pc = "done" => extractedSecret = CommittedScalar

\* C3 witness: the Payer's key point has an odd y, the extraction is done
\* and the subtraction s_c - s_a of the proof it used is negative
C3_Witness ==
    /\ pc = "done"
    /\ ~HasEvenY(FromPrivateKey(k_p))
    /\ \E j \in 1 .. Len(proofStates) :
          /\ proofStates[j] = spentProofs(proofStates)[1]
          /\ HiddenScalar(cashuSignatures[j]) < adaptors[j].val.s_a
          /\ extractedSecret = CommittedScalar

\* C4: whenever the Payer has extracted from a spent proof, the extracted
\* scalar with the shared nonce R_s is a valid signature of the event id
\* under the Signer's key, and the same holds for the extraction from any
\* other proof the mint reports as spent.
C4_ExtractedSignatureValid ==
    pc = "done" =>
      /\ isNostrEventValid
      /\ \A j \in 1 .. Len(proofStates) :
            proofStates[j].state = "SPENT" =>
              SchnorrVerify(oracle,
                            NostrSignature(ExtractSecret(proofStates[j].witness[1],
                                                         Lookup(adaptors, proofStates[j].Y).s_a)),
                            nostrEventId, P_s)

\* C4 witness: the extraction used the second proof, the only one the mint
\* reported as spent
C4_Witness ==
    /\ pc = "done"
    /\ Len(proofStates) > 1
    /\ proofStates[1].state = "UNSPENT"
    /\ proofStates[Len(proofStates)].state = "SPENT"
    /\ isNostrEventValid

\* C5: the Signer completes signatures only for a batch its verification
\* accepted.
C5_CompletionOnlyAfterAcceptance ==
    Len(cashuSignatures) > 0 => areAdaptorsValid

\* the challenge hash the Payer used for the deviating record
GeneratorHash == TaggedHash(oracle, fault.input)

\* the challenge hash the Signer computed for the last proof of the batch
SignerHash == TaggedHash(oracle, SignerChallengeInput(proofs[Len(proofs)]))

\* the Signer has computed its challenges
ChallengesComputed == Len(cashuChallenges) > 0

C7_WrongScalarFailsVerification ==
    fault.kind = "t" =>
      /\ pc \notin {"settled", "done"}
      /\ \A j \in 1 .. Len(cashuSignatures) :
            ~SchnorrVerify(oracle, cashuSignatures[j], Sha256(proofs[j].secret), P_p)

\* C7 witness: an accepted record was completed with another scalar and
\* handed to the mint, which refused it
C7_Witness ==
    /\ fault.kind = "t"
    /\ BatchAccepted
    /\ Len(cashuSignatures) > 0
    /\ pc = "rejected"

\* the record that was replaced would have been accepted as generated
OriginalAccepted ==
    /\ ~VerificationThrows(fault.orig, GeneratorHash)
    /\ AdaptorAccepted(fault.orig, GeneratorHash, P_p)

\* exactly one field of a record was replaced
FieldReplaced == fault.kind \in {"s_a", "R_p_x", "R_a_x"}

C10_NonceLoopBounded == attempts <= RetryCap

\* C11: every record the Signer's verification accepts has
\* R_a = x(lift(R_p) + T), and its completion with the committed t is a
\* valid signature of the proof's digest under the Payer's key.
C11_AcceptedRecordBoundToT ==
    BatchAccepted =>
      \A j \in 1 .. Len(adaptors) :
         LET rec == adaptors[j].val
         IN  /\ rec.R_a_x = NumToBytes(PointAdd(LiftX(BytesToNum(rec.R_p_x)), T)[1])
             /\ SchnorrVerify(oracle, CompleteSignature(rec, CommittedScalar),
                              Sha256(proofs[j].secret), P_p)

\* C12: when the nonce loop exits, R_p = r_p*G with r_p the drawn scalar or
\* its negation, R_a = R_p + T, and the y coordinates the loop reads of R_p
\* and of R_a are even.
C12_LoopExitConsistent ==
    pc = "adaptor" =>
      /\ BytesToNum(r_p) \in {rawNonce, CurveN - rawNonce}
      /\ R_p = FromPrivateKey(BytesToNum(r_p))
      /\ R_p[2] % 2 = 0
      /\ R_a = PointAdd(R_p, T)
      /\ R_a[2] % 2 = 0

\* C12 witness: the loop exits after a retry, with a nonce that was negated
C12_Witness ==
    /\ pc = "adaptor"
    /\ attempts > 1
    /\ BytesToNum(r_p) # rawNonce
    /\ R_a # ZERO

\* C13: every scalar in use lies in [0, n): the Payer's parity-compensated
\* challenge, the adaptor scalar, the Signer's challenge and its negation.
C13_ScalarsReduced ==
    \A j \in 1 .. Len(adaptors) :
       /\ adaptors[j].val.s_a \in 0 .. (CurveN - 1)
       /\ GeneratorInput(j) \in DOMAIN oracle =>
            PayerChallenge(TaggedHash(oracle, GeneratorInput(j)), k_p)
              \in 0 .. (CurveN - 1)
       /\ HasKey(cashuChallenges, adaptors[j].key) =>
            LET c == Lookup(cashuChallenges, adaptors[j].key)
            IN  /\ c \in 0 .. (CurveN - 1)
                /\ (CurveN - c) \in 0 .. (CurveN - 1)

\* C14: once the Signer has run its verification, the outcome is a boolean
\* verdict, never an exception, and the verdict is true exactly when every
\* record of the batch satisfies one of the two equations.
C14_VerdictIsConjunction ==
    (ChallengesComputed /\ pc # "verify") =>
      /\ verdictShown # "none"
      /\ areAdaptorsValid <=>
           \A j \in 1 .. Len(adaptors) :
              AdaptorAccepted(adaptors[j].val,
                              Lookup(cashuChallenges, adaptors[j].key), P_p)

\* C15: after completion the batch holds one adaptor record and one
\* completed signature per proof, and the witness attached to proof i is
\* the completion of the record stored under that proof's own key Y_i.
C15_WitnessPairedWithOwnRecord ==
    Len(cashuSignatures) > 0 =>
      /\ Len(adaptors) = Len(proofs)
      /\ Len(cashuSignatures) = Len(proofs)
      /\ \A i \in 1 .. Len(proofs) :
            LET Y == HashToCurve(proofs[i].secret)
            IN  /\ HasKey(adaptors, Y)
                /\ signedProofs[i].witness
                     = <<Lookup(adaptors, Y).R_a_x
                           \o NumToBytes((Lookup(adaptors, Y).s_a + CommittedScalar)
                                           % CurveN)>>

\* C15 witness: a batch of two proofs was completed into two different
\* signatures
C15_Witness ==
    /\ pc = "claim"
    /\ Len(proofs) > 1
    /\ cashuSignatures[1] # cashuSignatures[Len(cashuSignatures)]
    /\ adaptors[1].val # adaptors[Len(adaptors)].val

\* C16: whenever the proofs of the decoded token do not add up to the
\* agreed payment amount, or their secrets are not all distinct, the Signer
\* reports the token amount as invalid.
C16_TokenAmountChecked ==
    (/\ fault.kind = "token"
     /\ \/ SumAmounts(fault.orig) # paymentAmount
        \/ ~areSecretsUnique(fault.orig))
      => tokenAmountInvalid

\* C17: the Payer extracts a secret only from a proof reported as SPENT,
\* the first such proof, with the adaptor record stored under that proof's
\* own key; when no proof of the batch is reported as spent the run ends
\* with no extracted secret and no signed event.
C17_ExtractionOnlyFromSpent ==
    /\ extractedSecret >= 0 =>
         \E j \in 1 .. Len(proofStates) :
            /\ proofStates[j].state = "SPENT"
            /\ \A i \in 1 .. (j - 1) : proofStates[i].state # "SPENT"
            /\ \E a \in 1 .. Len(adaptors) :
                  /\ adaptors[a].key = HashToCurve(proofs[j].secret)
                  /\ extractedSecret
                       = (HiddenScalar(cashuSignatures[j]) - adaptors[a].val.s_a + CurveN)
                           % CurveN
    /\ pc = "done" => extractedSecret >= 0
    /\ (Len(proofStates) > 0 /\ \A j \in 1 .. Len(proofStates) : proofStates[j].state # "SPENT")
         => (pc = "rejected" /\ extractedSecret < 0 /\ ~isNostrEventValid)

\* C17 witness: the mint reported no proof as spent and the run ended
\* without an extracted secret
C17_Witness ==
    /\ Len(proofStates) > 0
    /\ \A j \in 1 .. Len(proofStates) : proofStates[j].state = "UNSPENT"
    /\ pc = "rejected"
    /\ extractedSecret < 0

C19_KeyMaterialUnchanged ==
    [][(pc = "nonce" \/ pc = "adaptor") =>
         (k_p' = k_p /\ P_p' = P_p /\ T' = T)]_vars

\* C19 witness: the whole batch was generated under a key whose point has
\* an odd y, and the public key still belongs to the secret key
C19_Witness ==
    /\ pc = "token"
    /\ Len(adaptors) > 1
    /\ ~HasEvenY(FromPrivateKey(k_p))
    /\ P_p = getPublicKey(k_p)

\* C20: the blinded nonce the loop returns is never the point at infinity,
\* so every R_a_x is the x coordinate of a curve point.
C20_BlindedNonceIsPoint ==
    /\ pc = "adaptor" => R_a # ZERO
    /\ \A j \in 1 .. Len(adaptors) : Liftable(BytesToNum(adaptors[j].val.R_a_x))

\* C21: for every scalar s in [0, n), negateScalar returns the 32-byte
\* encoding of (n - s) mod n, which lies in [0, n) and is 0 for s = 0; s plus
\* its negation is 0 modulo n, and negating twice gives s back.
C21_NegateScalarIsNegation ==
    pc = "negate" =>
      LET s   == BytesToNum(r_p)
          neg == negateScalar(r_p)
      IN  /\ s \in 0 .. (CurveN - 1)
          /\ Len(neg) = ByteLen
          /\ BytesToNum(neg) = (CurveN - s) % CurveN
          /\ BytesToNum(neg) \in 0 .. (CurveN - 1)
          /\ s = 0 => BytesToNum(neg) = 0
          /\ (s + BytesToNum(neg)) % CurveN = 0
          /\ negateScalar(neg) = r_p
          /\ BytesToNum(r_p) = IF attempts % 2 = 0 THEN rawNonce
                               ELSE (CurveN - rawNonce) % CurveN

\* C21 witness: negateScalar was applied twice to the scalar 0
C21_Witness ==
    /\ pc = "negate"
    /\ rawNonce = 0
    /\ attempts > 1
    /\ r_p = NumToBytes(0)

====
